---- MODULE Spec2Model ----
(***************************************************************************)
(* CarboPratos: calorie estimation for photographed plates.                *)
(*                                                                         *)
(* Conventions of the model                                                *)
(*  - A Python str is a sequence of characters; a character is a string    *)
(*    of the model naming it.  The non-ASCII letters of the sources are    *)
(*    written with an ASCII mark: "a~" is a-tilde, "c," is c-cedilla,      *)
(*    "A~" and "C," their capitals.                                        *)
(*  - A Python float is an exact fraction [n |-> numerator, d |-> denom].  *)
(*    round(x, k) rounds the exact value and its result is kept as an      *)
(*    integer count of 10^-k (383.6 g is 3836 tenths).  Python rounds the  *)
(*    binary double, so a value written x.x5 goes up or down with the      *)
(*    double's error; here such a tie goes to the even digit, and no       *)
(*    property below rests on the direction of a tie.                      *)
(*  - An operation that can raise returns [ok |-> FALSE, error |-> msg],   *)
(*    otherwise [ok |-> TRUE, value |-> v].                                *)
(***************************************************************************)
EXTENDS Integers, Sequences, FiniteSets, TLC

(***************************************************************************)
(* Bounds of the model                                                     *)
(***************************************************************************)
\* longest list of boxes the recognition backend returns for one image
MaxBoxes == 2
\* largest number of entries of a directory
MaxEntries == 3

(***************************************************************************)
(* str: lower(), the `in` substring test                                   *)
(***************************************************************************)
UpperToLower ==
     ("A" :> "a") @@ ("B" :> "b") @@ ("C" :> "c") @@ ("D" :> "d") @@ ("E" :> "e")
  @@ ("F" :> "f") @@ ("G" :> "g") @@ ("H" :> "h") @@ ("I" :> "i") @@ ("J" :> "j")
  @@ ("K" :> "k") @@ ("L" :> "l") @@ ("M" :> "m") @@ ("N" :> "n") @@ ("O" :> "o")
  @@ ("P" :> "p") @@ ("Q" :> "q") @@ ("R" :> "r") @@ ("S" :> "s") @@ ("T" :> "t")
  @@ ("U" :> "u") @@ ("V" :> "v") @@ ("W" :> "w") @@ ("X" :> "x") @@ ("Y" :> "y")
  @@ ("Z" :> "z") @@ ("A~" :> "a~") @@ ("C," :> "c,")

LowerChar(c) == IF c \in DOMAIN UpperToLower THEN UpperToLower[c] ELSE c

\* str.lower()
Lower(s) == [i \in 1..Len(s) |-> LowerChar(s[i])]

\* `sub in s` for two str
Contains(sub, s) ==
  \E k \in 0..(Len(s) - Len(sub)) :
    \A i \in 1..Len(sub) : s[k + i] = sub[i]

(***************************************************************************)
(* float arithmetic, exact                                                 *)
(***************************************************************************)
RECURSIVE GCD(_, _)
GCD(a, b) == IF b = 0 THEN a ELSE GCD(b, a % b)

\* the fraction n/d (n >= 0, d > 0) in lowest terms
Frac(n, d) ==
  LET g == GCD(n, d)
  IN  [n |-> n \div g, d |-> d \div g]

\* a * b, reduced before multiplying so that the products stay small
FracMul(a, b) ==
  LET g1 == GCD(a.n, b.d)
      g2 == GCD(b.n, a.d)
  IN  Frac((a.n \div g1) * (b.n \div g2), (a.d \div g2) * (b.d \div g1))

\* a + b
FracAdd(a, b) ==
  LET g == GCD(a.d, b.d)
  IN  Frac(a.n * (b.d \div g) + b.n * (a.d \div g), (a.d \div g) * b.d)

FracLess(a, b) == a.n * b.d < b.n * a.d
FracMin(a, b) == IF FracLess(b, a) THEN b ELSE a
FracMax(a, b) == IF FracLess(a, b) THEN b ELSE a

\* nearest integer to n/d (n >= 0, d > 0), a tie going to the even one
RoundDiv(n, d) ==
  LET q == n \div d
      r == n % d
  IN  IF 2 * r < d THEN q
      ELSE IF 2 * r > d THEN q + 1
      ELSE IF q % 2 = 0 THEN q ELSE q + 1

\* round(x, 1), in tenths
Round1(x) == RoundDiv(x.n * 10, x.d)
\* round(x, 2), in hundredths
Round2(x) == RoundDiv(x.n * 100, x.d)

(***************************************************************************)
(* src/src/calorie_database.py                                             *)
(***************************************************************************)
CALORIE_DATABASE ==
     (<<"a","p","p","l","e">> :> 52)
  @@ (<<"m","a","c,","a">> :> 52)
  @@ (<<"m","a","c","a">> :> 52)
  @@ (<<"o","r","a","n","g","e">> :> 47)
  @@ (<<"l","a","r","a","n","j","a">> :> 47)
  @@ (<<"b","a","n","a","n","a">> :> 89)
  @@ (<<"g","r","a","p","e","s">> :> 67)
  @@ (<<"u","v","a">> :> 67)
  @@ (<<"u","v","a","s">> :> 67)
  @@ (<<"s","t","r","a","w","b","e","r","r","y">> :> 32)
  @@ (<<"m","o","r","a","n","g","o">> :> 32)
  @@ (<<"m","o","r","a","n","g","o","s">> :> 32)
  @@ (<<"m","a","n","g","o">> :> 60)
  @@ (<<"m","a","n","g","a">> :> 60)
  @@ (<<"p","i","n","e","a","p","p","l","e">> :> 50)
  @@ (<<"a","b","a","c","a","x","i">> :> 50)
  @@ (<<"w","a","t","e","r","m","e","l","o","n">> :> 30)
  @@ (<<"m","e","l","a","n","c","i","a">> :> 30)
  @@ (<<"l","e","m","o","n">> :> 29)
  @@ (<<"l","i","m","a~","o">> :> 29)
  @@ (<<"l","i","m","a","o">> :> 29)
  @@ (<<"c","a","r","r","o","t">> :> 41)
  @@ (<<"c","e","n","o","u","r","a">> :> 41)
  @@ (<<"c","e","n","o","u","r","a","s">> :> 41)
  @@ (<<"b","r","o","c","c","o","l","i">> :> 34)
  @@ (<<"b","r","o'","c","o","l","i","s">> :> 34)
  @@ (<<"b","r","o","c","o","l","i","s">> :> 34)
  @@ (<<"l","e","t","t","u","c","e">> :> 15)
  @@ (<<"a","l","f","a","c","e">> :> 15)
  @@ (<<"t","o","m","a","t","o">> :> 18)
  @@ (<<"t","o","m","a","t","e">> :> 18)
  @@ (<<"t","o","m","a","t","e","s">> :> 18)
  @@ (<<"o","n","i","o","n">> :> 40)
  @@ (<<"c","e","b","o","l","a">> :> 40)
  @@ (<<"c","e","b","o","l","a","s">> :> 40)
  @@ (<<"c","u","c","u","m","b","e","r">> :> 16)
  @@ (<<"p","e","p","i","n","o">> :> 16)
  @@ (<<"p","o","t","a","t","o">> :> 77)
  @@ (<<"b","a","t","a","t","a">> :> 77)
  @@ (<<"b","a","t","a","t","a","s">> :> 77)
  @@ (<<"s","w","e","e","t"," ","p","o","t","a","t","o">> :> 86)
  @@ (<<"b","a","t","a","t","a"," ","d","o","c","e">> :> 86)
  @@ (<<"b","a","t","a","t","a","_","d","o","c","e">> :> 86)
  @@ (<<"p","e","p","p","e","r">> :> 31)
  @@ (<<"p","i","m","e","n","t","a~","o">> :> 31)
  @@ (<<"p","i","m","e","n","t","a","o">> :> 31)
  @@ (<<"c","a","b","b","a","g","e">> :> 25)
  @@ (<<"r","e","p","o","l","h","o">> :> 25)
  @@ (<<"s","p","i","n","a","c","h">> :> 23)
  @@ (<<"e","s","p","i","n","a","f","r","e">> :> 23)
  @@ (<<"e","g","g","p","l","a","n","t">> :> 25)
  @@ (<<"b","e","r","i","n","j","e","l","a">> :> 25)
  @@ (<<"z","u","c","c","h","i","n","i">> :> 17)
  @@ (<<"a","b","o","b","r","i","n","h","a">> :> 17)
  @@ (<<"c","o","r","n">> :> 96)
  @@ (<<"m","i","l","h","o">> :> 96)
  @@ (<<"g","r","e","e","n"," ","b","e","a","n","s">> :> 31)
  @@ (<<"v","a","g","e","m">> :> 31)
  @@ (<<"f","e","i","j","a~","o"," ","v","e","r","d","e">> :> 31)
  @@ (<<"f","e","i","j","a","o","_","v","e","r","d","e">> :> 31)
  @@ (<<"p","e","a","s">> :> 81)
  @@ (<<"e","r","v","i","l","h","a">> :> 81)
  @@ (<<"e","r","v","i","l","h","a","s">> :> 81)
  @@ (<<"b","e","a","n","s">> :> 347)
  @@ (<<"f","e","i","j","a~","o">> :> 347)
  @@ (<<"f","e","i","j","a","o">> :> 347)
  @@ (<<"l","e","n","t","i","l","s">> :> 353)
  @@ (<<"l","e","n","t","i","l","h","a">> :> 353)
  @@ (<<"l","e","n","t","i","l","h","a","s">> :> 353)
  @@ (<<"c","h","i","c","k","p","e","a","s">> :> 364)
  @@ (<<"g","r","a~","o"," ","d","e"," ","b","i","c","o">> :> 364)
  @@ (<<"g","r","a","o","_","d","e","_","b","i","c","o">> :> 364)
  @@ (<<"s","o","y","b","e","a","n","s">> :> 446)
  @@ (<<"s","o","j","a">> :> 446)
  @@ (<<"q","u","i","n","o","a">> :> 368)
  @@ (<<"q","u","i","n","u","a">> :> 368)
  @@ (<<"c","h","i","c","k","e","n">> :> 165)
  @@ (<<"f","r","a","n","g","o">> :> 165)
  @@ (<<"b","e","e","f">> :> 250)
  @@ (<<"c","a","r","n","e">> :> 250)
  @@ (<<"b","i","f","e">> :> 250)
  @@ (<<"p","o","r","k">> :> 242)
  @@ (<<"p","o","r","c","o">> :> 242)
  @@ (<<"l","o","m","b","o">> :> 242)
  @@ (<<"f","i","s","h">> :> 206)
  @@ (<<"p","e","i","x","e">> :> 206)
  @@ (<<"s","a","l","m","a~","o">> :> 208)
  @@ (<<"s","h","r","i","m","p">> :> 99)
  @@ (<<"c","a","m","a","r","a~","o">> :> 99)
  @@ (<<"c","a","m","a","r","a","o">> :> 99)
  @@ (<<"e","g","g">> :> 155)
  @@ (<<"o","v","o">> :> 155)
  @@ (<<"o","v","o","s">> :> 155)
  @@ (<<"t","o","f","u">> :> 76)
  @@ (<<"t","u","r","k","e","y">> :> 189)
  @@ (<<"p","e","r","u">> :> 189)
  @@ (<<"b","r","e","a","d">> :> 265)
  @@ (<<"p","a~","o">> :> 265)
  @@ (<<"p","a","o">> :> 265)
  @@ (<<"p","i","z","z","a">> :> 266)
  @@ (<<"p","a","s","t","a">> :> 131)
  @@ (<<"m","a","c","a","r","r","a~","o">> :> 131)
  @@ (<<"m","a","c","a","r","r","a","o">> :> 131)
  @@ (<<"m","a","s","s","a">> :> 131)
  @@ (<<"r","i","c","e">> :> 130)
  @@ (<<"a","r","r","o","z">> :> 130)
  @@ (<<"n","o","o","d","l","e","s">> :> 138)
  @@ (<<"t","a","l","h","a","r","i","m">> :> 138)
  @@ (<<"l","a","s","a","g","n","a">> :> 132)
  @@ (<<"l","a","s","a","n","h","a">> :> 132)
  @@ (<<"r","a","v","i","o","l","i">> :> 142)
  @@ (<<"c","h","e","e","s","e">> :> 113)
  @@ (<<"q","u","e","i","j","o">> :> 113)
  @@ (<<"m","i","l","k">> :> 42)
  @@ (<<"l","e","i","t","e">> :> 42)
  @@ (<<"y","o","g","u","r","t">> :> 59)
  @@ (<<"i","o","g","u","r","t","e">> :> 59)
  @@ (<<"b","u","t","t","e","r">> :> 717)
  @@ (<<"m","a","n","t","e","i","g","a">> :> 717)
  @@ (<<"c","r","e","a","m">> :> 345)
  @@ (<<"c","r","e","m","e">> :> 345)
  @@ (<<"m","o","z","z","a","r","e","l","l","a">> :> 280)
  @@ (<<"m","u","s","s","a","r","e","l","a">> :> 280)
  @@ (<<"p","a","r","m","e","s","a","n">> :> 431)
  @@ (<<"p","a","r","m","e","s","a~","o">> :> 431)
  @@ (<<"p","a","r","m","e","s","a","o">> :> 431)
  @@ (<<"n","u","t","s">> :> 607)
  @@ (<<"c","a","s","t","a","n","h","a">> :> 607)
  @@ (<<"c","a","s","t","a","n","h","a","s">> :> 607)
  @@ (<<"a","l","m","o","n","d","s">> :> 579)
  @@ (<<"a","m","e^","n","d","o","a","s">> :> 579)
  @@ (<<"a","m","e","n","d","o","a","s">> :> 579)
  @@ (<<"w","a","l","n","u","t","s">> :> 654)
  @@ (<<"n","o","z","e","s">> :> 654)
  @@ (<<"p","e","a","n","u","t","s">> :> 567)
  @@ (<<"a","m","e","n","d","o","i","m">> :> 567)
  @@ (<<"c","a","s","h","e","w","s">> :> 553)
  @@ (<<"c","a","s","t","a","n","h","a"," ","d","e"," ","c","a","j","u">> :> 553)
  @@ (<<"c","a","s","t","a","n","h","a","_","d","e","_","c","a","j","u">> :> 553)
  @@ (<<"s","e","e","d","s">> :> 559)
  @@ (<<"s","e","m","e","n","t","e","s">> :> 559)
  @@ (<<"s","u","n","f","l","o","w","e","r"," ","s","e","e","d","s">> :> 584)
  @@ (<<"s","e","m","e","n","t","e"," ","d","e"," ","g","i","r","a","s","s","o","l">> :> 584)
  @@ (<<"s","a","n","d","w","i","c","h">> :> 250)
  @@ (<<"s","a","n","d","u","i'","c","h","e">> :> 250)
  @@ (<<"s","a","n","d","u","i","c","h","e">> :> 250)
  @@ (<<"c","a","k","e">> :> 350)
  @@ (<<"b","o","l","o">> :> 350)
  @@ (<<"d","o","n","u","t">> :> 452)
  @@ (<<"r","o","s","q","u","i","n","h","a">> :> 452)
  @@ (<<"h","o","t"," ","d","o","g">> :> 290)
  @@ (<<"h","a","m","b","u","r","g","e","r">> :> 354)
  @@ (<<"h","a","m","b","u'","r","g","u","e","r">> :> 354)
  @@ (<<"h","a","m","b","u","r","g","u","e","r">> :> 354)
  @@ (<<"f","r","e","n","c","h"," ","f","r","i","e","s">> :> 365)
  @@ (<<"b","a","t","a","t","a"," ","f","r","i","t","a">> :> 365)
  @@ (<<"b","a","t","a","t","a","_","f","r","i","t","a">> :> 365)
  @@ (<<"i","c","e"," ","c","r","e","a","m">> :> 207)
  @@ (<<"s","o","r","v","e","t","e">> :> 207)
  @@ (<<"c","h","o","c","o","l","a","t","e">> :> 546)
  @@ (<<"c","o","o","k","i","e">> :> 488)
  @@ (<<"b","i","s","c","o","i","t","o">> :> 488)
  @@ (<<"c","r","a","c","k","e","r">> :> 421)
  @@ (<<"b","o","l","a","c","h","a">> :> 421)
  @@ (<<"s","o","u","p">> :> 25)
  @@ (<<"s","o","p","a">> :> 25)
  @@ (<<"s","a","l","a","d">> :> 20)
  @@ (<<"s","a","l","a","d","a">> :> 20)
  @@ (<<"d","r","e","s","s","i","n","g">> :> 450)
  @@ (<<"m","o","l","h","o">> :> 450)
  @@ (<<"o","i","l">> :> 884)
  @@ (<<"o'","l","e","o">> :> 884)
  @@ (<<"o","l","e","o">> :> 884)
  @@ (<<"o","l","i","v","e"," ","o","i","l">> :> 884)
  @@ (<<"a","z","e","i","t","e">> :> 884)
  @@ (<<"v","i","n","e","g","a","r">> :> 19)
  @@ (<<"v","i","n","a","g","r","e">> :> 19)
  @@ (<<"s","a","l","t">> :> 0)
  @@ (<<"s","a","l">> :> 0)
  @@ (<<"s","u","g","a","r">> :> 387)
  @@ (<<"a","c,","u'","c","a","r">> :> 387)
  @@ (<<"a","c","u","c","a","r">> :> 387)
  @@ (<<"h","o","n","e","y">> :> 304)
  @@ (<<"m","e","l">> :> 304)
  @@ (<<"j","a","m">> :> 265)
  @@ (<<"g","e","l","e","i","a">> :> 265)
  @@ (<<"m","u","s","t","a","r","d">> :> 66)
  @@ (<<"m","o","s","t","a","r","d","a">> :> 66)
  @@ (<<"k","e","t","c","h","u","p">> :> 112)
  @@ (<<"m","a","y","o","n","n","a","i","s","e">> :> 680)
  @@ (<<"m","a","i","o","n","e","s","e">> :> 680)

\* variant: the lookup without lower()
get_calories_per_100g_CaseSensitive(food_item) ==
  IF food_item \in DOMAIN CALORIE_DATABASE THEN CALORIE_DATABASE[food_item] ELSE 0

\* get_calories_per_100g(food_item): CALORIE_DATABASE.get(food_item.lower(), 0)
get_calories_per_100g(food_item) ==
  LET key == Lower(food_item)
  IN  IF key \in DOMAIN CALORIE_DATABASE THEN CALORIE_DATABASE[key] ELSE 0

(***************************************************************************)
(* src/src/food_detector.py                                                *)
(***************************************************************************)
\* the area of a 25 cm plate, cm2 (plate_area_cm2)
plate_area_cm2 == 491
\* ApplyWeightLimitations: the floor and the ceiling of a weight, grams
MinWeight == 30
MaxWeight == 400

\* FoodDetector.__init__: self.coco_to_food
coco_to_food ==
     (<<"b","o","w","l">> :> <<"b","o","w","l">>)
  @@ (<<"c","u","p">> :> <<"c","u","p">>)
  @@ (<<"f","o","r","k">> :> <<"u","t","e","n","s","i","l">>)
  @@ (<<"k","n","i","f","e">> :> <<"u","t","e","n","s","i","l">>)
  @@ (<<"s","p","o","o","n">> :> <<"u","t","e","n","s","i","l">>)
  @@ (<<"c","a","r","r","o","t">> :> <<"c","a","r","r","o","t">>)
  @@ (<<"b","r","o","c","c","o","l","i">> :> <<"b","r","o","c","c","o","l","i">>)
  @@ (<<"c","a","k","e">> :> <<"c","a","k","e">>)
  @@ (<<"d","o","n","u","t">> :> <<"d","o","n","u","t">>)
  @@ (<<"p","i","z","z","a">> :> <<"p","i","z","z","a">>)
  @@ (<<"s","a","n","d","w","i","c","h">> :> <<"s","a","n","d","w","i","c","h">>)
  @@ (<<"h","o","t"," ","d","o","g">> :> <<"h","o","t"," ","d","o","g">>)
  @@ (<<"h","a","m","b","u","r","g","e","r">> :> <<"h","a","m","b","u","r","g","e","r">>)

\* _GetFoodDensity: the table `densities`, in tenths of g/cm3, without its
\* 'default' entry (DefaultDensity)
densities ==
     (<<"a","r","r","o","z">> :> 8)
  @@ (<<"r","i","c","e">> :> 8)
  @@ (<<"f","e","i","j","a","o">> :> 12)
  @@ (<<"f","e","i","j","a~","o">> :> 12)
  @@ (<<"b","e","a","n","s">> :> 12)
  @@ (<<"m","a","c","a","r","r","a","o">> :> 6)
  @@ (<<"m","a","c","a","r","r","a~","o">> :> 6)
  @@ (<<"p","a","s","t","a">> :> 6)
  @@ (<<"m","a","s","s","a">> :> 6)
  @@ (<<"b","a","t","a","t","a">> :> 7)
  @@ (<<"p","o","t","a","t","o">> :> 7)
  @@ (<<"b","a","t","a","t","a","_","d","o","c","e">> :> 8)
  @@ (<<"s","w","e","e","t"," ","p","o","t","a","t","o">> :> 8)
  @@ (<<"f","r","a","n","g","o">> :> 9)
  @@ (<<"c","h","i","c","k","e","n">> :> 9)
  @@ (<<"c","a","r","n","e">> :> 10)
  @@ (<<"b","e","e","f">> :> 10)
  @@ (<<"b","i","f","e">> :> 10)
  @@ (<<"p","e","i","x","e">> :> 10)
  @@ (<<"f","i","s","h">> :> 10)
  @@ (<<"o","v","o">> :> 9)
  @@ (<<"e","g","g">> :> 9)
  @@ (<<"o","v","o","s">> :> 9)
  @@ (<<"q","u","e","i","j","o">> :> 8)
  @@ (<<"c","h","e","e","s","e">> :> 8)
  @@ (<<"c","e","n","o","u","r","a">> :> 7)
  @@ (<<"c","a","r","r","o","t">> :> 7)
  @@ (<<"t","o","m","a","t","e">> :> 6)
  @@ (<<"t","o","m","a","t","o">> :> 6)
  @@ (<<"a","l","f","a","c","e">> :> 3)
  @@ (<<"l","e","t","t","u","c","e">> :> 3)
  @@ (<<"b","r","o","c","o","l","i","s">> :> 5)
  @@ (<<"b","r","o","c","c","o","l","i">> :> 5)
  @@ (<<"c","e","b","o","l","a">> :> 6)
  @@ (<<"o","n","i","o","n">> :> 6)
  @@ (<<"v","a","g","e","m">> :> 5)
  @@ (<<"g","r","e","e","n"," ","b","e","a","n","s">> :> 5)
  @@ (<<"b","a","n","a","n","a">> :> 7)
  @@ (<<"m","a","c","a">> :> 7)
  @@ (<<"m","a","c,","a">> :> 7)
  @@ (<<"a","p","p","l","e">> :> 7)
  @@ (<<"l","a","r","a","n","j","a">> :> 6)
  @@ (<<"o","r","a","n","g","e">> :> 6)
  @@ (<<"u","v","a">> :> 8)
  @@ (<<"g","r","a","p","e","s">> :> 8)
\* densities['default'], in tenths of g/cm3
DefaultDensity == 8

\* _GetFoodDensity(food_name): densities.get(food_name.lower(), densities['default'])
\* (the key 'default' itself maps to the default as well)
GetFoodDensity(food_name) ==
  LET key == Lower(food_name)
  IN  IF key \in DOMAIN densities THEN Frac(densities[key], 10)
      ELSE Frac(DefaultDensity, 10)

\* the keyword lists of _EstimateFoodHeight
SaladWords == { <<"s","a","l","a","d","a">>, <<"a","l","f","a","c","e">>,
                <<"l","e","t","t","u","c","e">> }
GrainWords == { <<"a","r","r","o","z">>, <<"r","i","c","e">>,
                <<"f","e","i","j","a","o">>, <<"f","e","i","j","a~","o">>,
                <<"b","e","a","n","s">> }
ProteinWords == { <<"b","a","t","a","t","a">>, <<"p","o","t","a","t","o">>,
                  <<"c","a","r","n","e">>, <<"b","e","e","f">>,
                  <<"f","r","a","n","g","o">>, <<"c","h","i","c","k","e","n">> }

\* variant: the protein words are looked for before the grain words
EstimateFoodHeight_ProteinFirst(food_name) ==
  LET name == Lower(food_name)
  IN  IF \E word \in SaladWords : Contains(word, name) THEN Frac(2, 1)
      ELSE IF \E word \in ProteinWords : Contains(word, name) THEN Frac(4, 1)
      ELSE IF \E word \in GrainWords : Contains(word, name) THEN Frac(3, 1)
      ELSE Frac(3, 1)

\* _EstimateFoodHeight(food_name), cm
EstimateFoodHeight(food_name) ==
  LET name == Lower(food_name)
  IN  IF \E word \in SaladWords : Contains(word, name) THEN Frac(2, 1)
      ELSE IF \E word \in GrainWords : Contains(word, name) THEN Frac(3, 1)
      ELSE IF \E word \in ProteinWords : Contains(word, name) THEN Frac(4, 1)
      ELSE Frac(3, 1)

\* _CalculateFoodArea(detection, image_shape): area_ratio * plate_area_cm2,
\* area_ratio = detection['area'] / (image_shape[0] * image_shape[1])
CalculateFoodArea(detection, image_shape) ==
  FracMul(Frac(detection.area, image_shape[1] * image_shape[2]),
          Frac(plate_area_cm2, 1))

\* CalculateFoodVolume(area_cm2, height_cm)
CalculateFoodVolume(area_cm2, height_cm) == FracMul(area_cm2, height_cm)

\* CalculateFoodWeight(volume_cm3, density)
CalculateFoodWeight(volume_cm3, density) == FracMul(volume_cm3, density)

\* the weight before ApplyWeightLimitations, grams
RawWeight(detection, image_shape) ==
  LET food_area_cm2 == CalculateFoodArea(detection, image_shape)
      density == GetFoodDensity(detection.class_name)
      avg_height_cm == EstimateFoodHeight(detection.class_name)
      food_volume_cm3 == CalculateFoodVolume(food_area_cm2, avg_height_cm)
  IN  CalculateFoodWeight(food_volume_cm3, density)

\* variant: the ceiling without the floor
ApplyWeightLimitations_NoFloor(weight) ==
  Round1(FracMin(weight, Frac(MaxWeight, 1)))

\* variant: the limited weight cut to one decimal instead of rounded
ApplyWeightLimitations_Truncates(weight) ==
  LET limited_weight == FracMax(FracMin(weight, Frac(MaxWeight, 1)),
                                Frac(MinWeight, 1))
  IN  (limited_weight.n * 10) \div limited_weight.d

\* ApplyWeightLimitations(weight): round(max(min(weight, 400), 30), 1), in
\* tenths of a gram
ApplyWeightLimitations(weight) ==
  Round1(FracMax(FracMin(weight, Frac(MaxWeight, 1)), Frac(MinWeight, 1)))

\* EstimateFoodQuantity(detection, image_shape), in tenths of a gram
EstimateFoodQuantity(detection, image_shape) ==
  ApplyWeightLimitations(RawWeight(detection, image_shape))

\* the labels _ProcessDetectionResults keeps although they have no calories
ContextClasses == { <<"b","o","w","l">>, <<"c","u","p">> }

\* variant: every box becomes a detection
ProcessBox_KeepsAll(box) ==
  LET class_name == box.cls
      food_name == IF class_name \in DOMAIN coco_to_food
                   THEN coco_to_food[class_name] ELSE class_name
      area == (box.xyxy[3] - box.xyxy[1]) * (box.xyxy[4] - box.xyxy[2])
  IN  << [class_name |-> food_name, coco_class |-> class_name,
          confidence |-> box.conf, bbox |-> box.xyxy, area |-> area,
          calories_per_100g |-> get_calories_per_100g(food_name)] >>

\* _ProcessDetectionResults, one box: the detection it appends, if any.
\* box.cls is the class name self.model.names[class_id].
ProcessBox(box) ==
  LET class_name == box.cls
      food_name == IF class_name \in DOMAIN coco_to_food
                   THEN coco_to_food[class_name] ELSE class_name
      area == (box.xyxy[3] - box.xyxy[1]) * (box.xyxy[4] - box.xyxy[2])
      calories == get_calories_per_100g(food_name)
  IN  IF calories > 0 \/ class_name \in ContextClasses
      THEN << [class_name |-> food_name, coco_class |-> class_name,
               confidence |-> box.conf, bbox |-> box.xyxy, area |-> area,
               calories_per_100g |-> calories] >>
      ELSE << >>

RECURSIVE ProcessBoxes(_)
ProcessBoxes(boxes) ==
  IF boxes = << >> THEN << >>
  ELSE ProcessBox(Head(boxes)) \o ProcessBoxes(Tail(boxes))

\* _ProcessDetectionResults(results): results is the list of the backend's
\* Results objects, each with its boxes
RECURSIVE ProcessDetectionResults(_)
ProcessDetectionResults(results) ==
  IF results = << >> THEN << >>
  ELSE ProcessBoxes(Head(results).boxes) \o ProcessDetectionResults(Tail(results))

\* RunYOLODetection(image_path): self.model(image_path); what the backend
\* does with an image is part of the image's description (image.yolo)
RunYOLODetection(image) == image.yolo

\* DetectFoods(image_path)
DetectFoods(image) ==
  LET yolo_detections == RunYOLODetection(image)
  IN  IF ~yolo_detections.ok THEN yolo_detections
      ELSE [ok |-> TRUE, value |-> ProcessDetectionResults(yolo_detections.value)]

(***************************************************************************)
(* src/src/calorie_calculator.py                                           *)
(***************************************************************************)
\* _LoadImage(image_path): the file is missing, or cv2 reads it ("cv2"), or
\* only PIL reads it ("pil"), or neither does ("corrupt")
LoadImage(image) ==
  CASE image.file = "missing" ->
         [ok |-> FALSE, error |-> "Image Not Found"]
    [] image.file \in {"cv2", "pil"} ->
         [ok |-> TRUE, value |-> image.shape]
    [] OTHER ->
         [ok |-> FALSE, error |-> "Unsupported Image Format or Corrupted File"]

\* variant: a detection without calories counts as 100 kcal per 100 g
DetectionCalories_NominalForUnknown(detection, estimated_weight) ==
  Frac((IF detection.calories_per_100g = 0 THEN 100
        ELSE detection.calories_per_100g) * estimated_weight, 10 * 100)

\* CalculatePlateCalories, line 51: calories of one detection, unrounded.
\* estimated_weight is in tenths of a gram.
DetectionCalories(detection, estimated_weight) ==
  Frac(detection.calories_per_100g * estimated_weight, 10 * 100)

\* variant: the calories of a detail taken from the weight in whole grams
FoodDetail_WholeGrams(detection, image_shape) ==
  LET estimated_weight == EstimateFoodQuantity(detection, image_shape)
  IN  [food |-> detection.class_name,
       weight_g |-> Round1(Frac(estimated_weight, 10)),
       calories |-> Round1(Frac(detection.calories_per_100g
                                  * RoundDiv(estimated_weight, 10), 100)),
       confidence |-> Round2(detection.confidence)]

\* CalculatePlateCalories, lines 55-60: the food_details entry of a detection;
\* weight_g and calories in tenths, confidence in hundredths
FoodDetail(detection, image_shape) ==
  LET estimated_weight == EstimateFoodQuantity(detection, image_shape)
      calories == DetectionCalories(detection, estimated_weight)
  IN  [food |-> detection.class_name,
       weight_g |-> Round1(Frac(estimated_weight, 10)),
       calories |-> Round1(calories),
       confidence |-> Round2(detection.confidence)]

\* CalculatePlateCalories, lines 42-53: total_calories after the loop, unrounded
RECURSIVE SumCalories(_, _)
SumCalories(detections, image_shape) ==
  IF detections = << >> THEN Frac(0, 1)
  ELSE FracAdd(DetectionCalories(Head(detections),
                   EstimateFoodQuantity(Head(detections), image_shape)),
               SumCalories(Tail(detections), image_shape))

\* variant: the total as the sum of the rounded calories of the details
RECURSIVE SumRounded(_, _)
SumRounded(detections, image_shape) ==
  IF detections = << >> THEN 0
  ELSE Round1(DetectionCalories(Head(detections),
                EstimateFoodQuantity(Head(detections), image_shape)))
       + SumRounded(Tail(detections), image_shape)
PlateResult_SumOfRounded(image, detections, image_shape) ==
  [total_calories |-> SumRounded(detections, image_shape),
   food_count |-> Len(detections),
   food_details |-> [i \in 1..Len(detections) |->
                       FoodDetail(detections[i], image_shape)],
   image_path |-> image.path]

\* variant: the details listed from the last detection to the first
PlateResult_ReversedDetails(image, detections, image_shape) ==
  [total_calories |-> Round1(SumCalories(detections, image_shape)),
   food_count |-> Len(detections),
   food_details |-> [i \in 1..Len(detections) |->
                       FoodDetail(detections[Len(detections) + 1 - i],
                                  image_shape)],
   image_path |-> image.path]

\* CalculatePlateCalories, lines 42-67: the result built from the detections
PlateResult(image, detections, image_shape) ==
  [total_calories |-> Round1(SumCalories(detections, image_shape)),
   food_count |-> Len(detections),
   food_details |-> [i \in 1..Len(detections) |->
                       FoodDetail(detections[i], image_shape)],
   image_path |-> image.path]

\* variant: a plate without detections is refused
CalculatePlateCalories_RaisesOnEmpty(image) ==
  LET detections == DetectFoods(image)
      loaded == LoadImage(image)
  IN  IF ~detections.ok THEN detections
      ELSE IF ~loaded.ok THEN loaded
      ELSE IF detections.value = << >>
      THEN [ok |-> FALSE, error |-> "no food detected"]
      ELSE [ok |-> TRUE,
            value |-> PlateResult(image, detections.value, loaded.value)]

\* CalculatePlateCalories(image_path)
CalculatePlateCalories(image) ==
  LET detections == DetectFoods(image)
      loaded == LoadImage(image)
  IN  IF ~detections.ok THEN detections
      ELSE IF ~loaded.ok THEN loaded
      ELSE [ok |-> TRUE,
            value |-> PlateResult(image, detections.value, loaded.value)]

(***************************************************************************)
(* src/src/food_classifier.py                                              *)
(***************************************************************************)
\* _EstimateArea, _EstimateBoundingBox: the defaults when cv2 cannot read
\* the image
DefaultWidth == 640
DefaultHeight == 480
DefaultArea == 307200

\* FoodClassifier.__init__: self.food_categories, in insertion order; each
\* entry is <<category, keywords>>
food_categories ==
  <<
    <<<<"a","r","r","o","z">>, <<<<"a","r","r","o","z">>, <<"r","i","c","e">>>>>>,
    <<<<"f","e","i","j","a","o">>, <<<<"f","e","i","j","a~","o">>, <<"f","e","i","j","a","o">>, <<"b","e","a","n","s">>>>>>,
    <<<<"f","r","a","n","g","o">>, <<<<"f","r","a","n","g","o">>, <<"c","h","i","c","k","e","n">>>>>>,
    <<<<"c","a","r","n","e">>, <<<<"c","a","r","n","e">>, <<"b","e","e","f">>, <<"b","i","f","e">>>>>>,
    <<<<"b","a","t","a","t","a">>, <<<<"b","a","t","a","t","a">>, <<"p","o","t","a","t","o">>>>>>,
    <<<<"c","e","n","o","u","r","a">>, <<<<"c","e","n","o","u","r","a">>, <<"c","a","r","r","o","t">>>>>>,
    <<<<"t","o","m","a","t","e">>, <<<<"t","o","m","a","t","e">>, <<"t","o","m","a","t","o">>>>>>,
    <<<<"a","l","f","a","c","e">>, <<<<"a","l","f","a","c","e">>, <<"l","e","t","t","u","c","e">>>>>>,
    <<<<"q","u","e","i","j","o">>, <<<<"q","u","e","i","j","o">>, <<"c","h","e","e","s","e">>>>>>,
    <<<<"p","a","o">>, <<<<"p","a~","o">>, <<"p","a","o">>, <<"b","r","e","a","d">>>>>>,
    <<<<"m","a","c","a","r","r","a","o">>, <<<<"m","a","c","a","r","r","a~","o">>, <<"m","a","c","a","r","r","a","o">>, <<"p","a","s","t","a">>, <<"m","a","s","s","a">>>>>>,
    <<<<"b","a","n","a","n","a">>, <<<<"b","a","n","a","n","a">>>>>>,
    <<<<"m","a","c","a">>, <<<<"m","a","c,","a~">>, <<"m","a","c","a">>, <<"a","p","p","l","e">>>>>>,
    <<<<"l","a","r","a","n","j","a">>, <<<<"l","a","r","a","n","j","a">>, <<"o","r","a","n","g","e">>>>>>,
    <<<<"u","v","a">>, <<<<"u","v","a">>, <<"g","r","a","p","e","s">>>>>>
  >>

\* _RuleBasedClassification: common_foods
common_foods ==
  << <<"a","r","r","o","z">>, <<"f","e","i","j","a~","o">>,
     <<"f","r","a","n","g","o">> >>

\* _EstimateBoundingBox(image_path): the whole image, as cv2 reads it
EstimateBoundingBox(image) ==
  IF image.file = "cv2"
  THEN <<0, 0, image.shape[2], image.shape[1]>>
  ELSE <<0, 0, DefaultWidth, DefaultHeight>>

\* variant: the default area whatever the image
EstimateArea_Default(image) == DefaultArea

\* _EstimateArea(image_path): height * width of the image, as cv2 reads it
EstimateArea(image) ==
  IF image.file = "cv2"
  THEN image.shape[1] * image.shape[2]
  ELSE DefaultArea

\* the dict _RuleBasedClassification appends for a food name
ClassifiedFood(food, confidence, image) ==
  [class_name |-> food,
   confidence |-> confidence,
   calories_per_100g |-> get_calories_per_100g(food),
   bbox |-> EstimateBoundingBox(image),
   area |-> EstimateArea(image)]

\* _RuleBasedClassification, lines 157-168: the inner loop over the keywords
\* of one category; it stops at the first keyword found in the filename
RECURSIVE MatchKeywords(_, _, _)
MatchKeywords(keywords, filename, image) ==
  IF keywords = << >> THEN << >>
  ELSE LET keyword == Head(keywords)
       IN  IF Contains(keyword, filename)
           THEN IF get_calories_per_100g(keyword) > 0
                THEN << ClassifiedFood(keyword, Frac(7, 10), image) >>
                ELSE << >>
           ELSE MatchKeywords(Tail(keywords), filename, image)

\* variant: the loop over the categories stops at the first category found
RECURSIVE MatchCategories_FirstOnly(_, _, _)
MatchCategories_FirstOnly(categories, filename, image) ==
  IF categories = << >> THEN << >>
  ELSE LET found == MatchKeywords(Head(categories)[2], filename, image)
       IN  IF found # << >> THEN found
           ELSE MatchCategories_FirstOnly(Tail(categories), filename, image)

\* _RuleBasedClassification, lines 156-168: the loop over the categories
RECURSIVE MatchCategories(_, _, _)
MatchCategories(categories, filename, image) ==
  IF categories = << >> THEN << >>
  ELSE MatchKeywords(Head(categories)[2], filename, image)
         \o MatchCategories(Tail(categories), filename, image)

\* _RuleBasedClassification, lines 150-168: what the filename gives
FilenameMatches(image) ==
  MatchCategories(food_categories, Lower(image.path.stem), image)

\* _RuleBasedClassification, lines 171-182: the common foods
RECURSIVE CommonFoods(_, _)
CommonFoods(foods, image) ==
  IF foods = << >> THEN << >>
  ELSE (IF get_calories_per_100g(Head(foods)) > 0
        THEN << ClassifiedFood(Head(foods), Frac(5, 10), image) >>
        ELSE << >>)
         \o CommonFoods(Tail(foods), image)

\* variant: the common foods are added whatever the filename gave
RuleBasedClassification_AlwaysAddsDefaults(image) ==
  FilenameMatches(image) \o CommonFoods(common_foods, image)

\* _RuleBasedClassification(image_path)
RuleBasedClassification(image) ==
  LET classified_foods == FilenameMatches(image)
  IN  IF classified_foods = << >> THEN CommonFoods(common_foods, image)
      ELSE classified_foods

\* ClassifyFoods(image_path) of a classifier built without a model
\* (self.learn is None)
ClassifyFoods(image) == RuleBasedClassification(image)

\* _DeepLearningClassification, lines 104-115 and 121-130: the dict appended
\* for a predicted class, if its confidence is above 0.3 and it has calories
ClassifiedPrediction(food_name, confidence, image) ==
  IF FracLess(Frac(3, 10), confidence) /\ get_calories_per_100g(food_name) > 0
  THEN << [class_name |-> food_name,
           confidence |-> confidence,
           calories_per_100g |-> get_calories_per_100g(food_name),
           bbox |-> EstimateBoundingBox(image),
           area |-> EstimateArea(image)] >>
  ELSE << >>

\* _DeepLearningClassification, lines 103-115: the loop over predictions[2];
\* each entry is <<vocabulary label, confidence>>
RECURSIVE ClassifiedPredictions(_, _)
ClassifiedPredictions(scores, image) ==
  IF scores = << >> THEN << >>
  ELSE ClassifiedPrediction(Head(scores)[1], Head(scores)[2], image)
         \o ClassifiedPredictions(Tail(scores), image)

\* _DeepLearningClassification(image_path); _LoadImage raises when PIL cannot
\* open the file; image.predict is what self.learn.predict does: it raises,
\* or gives a multi-label or a single-label prediction
DeepLearningClassification(image) ==
  IF image.file \notin {"cv2", "pil"} \/ ~image.predict.ok
  THEN RuleBasedClassification(image)
  ELSE IF image.predict.value.multi
  THEN ClassifiedPredictions(image.predict.value.scores, image)
  ELSE ClassifiedPrediction(image.predict.value.predicted_class,
                            image.predict.value.confidence, image)

\* ClassifyFoods(image_path) of a classifier with a loaded model
\* (self.learn is not None)
ClassifyFoodsLoaded(image) == DeepLearningClassification(image)

(***************************************************************************)
(* src/src/image_processor.py                                              *)
(***************************************************************************)
\* ImageProcessor.__init__: self.supported_formats
supported_formats ==
  { <<".","j","p","g">>, <<".","j","p","e","g">>, <<".","p","n","g">>,
    <<".","b","m","p">>, <<".","t","i","f","f">>, <<".","a","v","i","f">>,
    <<".","w","e","b","p">> }

\* VerifyDirectoryPath(directory_path)
VerifyDirectoryPath(directory) ==
  IF directory.exists THEN [ok |-> TRUE, value |-> TRUE]
  ELSE [ok |-> FALSE, error |-> "Directory not found"]

\* FindImageFiles(directory_path); directory.iterdir() raises when the
\* directory cannot be listed
FindImageFiles(directory) ==
  IF ~directory.listable THEN [ok |-> FALSE, error |-> "cannot list directory"]
  ELSE [ok |-> TRUE,
        value |-> SelectSeq(directory.entries,
                    LAMBDA f : f.is_file
                               /\ Lower(f.path.suffix) \in supported_formats)]

\* variant: the error variant keeps the exception's type, not its message
ProcessImageFile_LosesMessage(image_file) ==
  LET r == CalculatePlateCalories(image_file)
  IN  IF r.ok THEN r.value
      ELSE [image_path |-> image_file.path,
            error |-> "Exception",
            total_calories |-> 0,
            food_count |-> 0]

\* ProcessImageFile(image_file)
ProcessImageFile(image_file) ==
  LET r == CalculatePlateCalories(image_file)
  IN  IF r.ok THEN r.value
      ELSE [image_path |-> image_file.path,
            error |-> r.error,
            total_calories |-> 0,
            food_count |-> 0]

\* _SaveResultToFile(result, image_file, output_dir): the report it writes;
\* open() raises when the report file cannot be written
SaveResultToFile(result, image_file) ==
  IF ~image_file.report_writable
  THEN [ok |-> FALSE, error |-> "cannot write report"]
  ELSE [ok |-> TRUE,
        value |-> [name |-> image_file.path.stem,
                   body |-> IF "error" \in DOMAIN result
                            THEN [error |-> result.error]
                            ELSE [total_calories |-> result.total_calories,
                                  food_count |-> result.food_count,
                                  food_details |-> result.food_details]]]

(***************************************************************************)
(* src/main.py                                                             *)
(***************************************************************************)
\* ValidatePath(directory_path)
ValidatePath(directory) == directory.exists

\* sum(r['total_calories'] for r in successful), in tenths
RECURSIVE SumTotals(_)
SumTotals(rs) ==
  IF rs = << >> THEN 0 ELSE Head(rs).total_calories + SumTotals(Tail(rs))

\* variant: every result counted as a success
PrintResume_CountsAll(rs) ==
  LET errors == SelectSeq(rs, LAMBDA r : "error" \in DOMAIN r)
  IN  [processed |-> Len(rs),
       successful |-> Len(rs),
       errors |-> Len(errors),
       total_calories |-> IF rs # << >> THEN << SumTotals(rs) >> ELSE << >>,
       error_lines |-> [k \in 1..Len(errors) |->
                          <<errors[k].image_path, errors[k].error>>]]

\* PrintResume(results, directory_path): the numbers it prints; the calories
\* line is printed only when some result is a success
PrintResume(rs) ==
  LET successful == SelectSeq(rs, LAMBDA r : "error" \notin DOMAIN r)
      errors == SelectSeq(rs, LAMBDA r : "error" \in DOMAIN r)
  IN  [processed |-> Len(rs),
       successful |-> Len(successful),
       errors |-> Len(errors),
       total_calories |-> IF successful # << >>
                          THEN << SumTotals(successful) >> ELSE << >>,
       error_lines |-> [k \in 1..Len(errors) |->
                          <<errors[k].image_path, errors[k].error>>]]

(***************************************************************************)
(* The environment: images, what the recognition backend returns for       *)
(* them, directories                                                       *)
(***************************************************************************)
\* an image file: path (stem, suffix), file state ("cv2": cv2 reads it,
\* "pil": only PIL reads it, "corrupt", "missing"), shape <<height, width>>,
\* and yolo, what self.model(image_path) does
Image(stem, suffix, file, shape, yolo) ==
  [path |-> [stem |-> stem, suffix |-> suffix],
   file |-> file, shape |-> shape, yolo |-> yolo]

\* a backend box: corner coordinates, confidence, class name
Box(cls, xyxy, conf) == [cls |-> cls, xyxy |-> xyxy, conf |-> conf]

\* the backend returns one Results object for one image
Detected(boxes) == [ok |-> TRUE, value |-> << [boxes |-> boxes] >>]
BackendFails == [ok |-> FALSE, error |-> "backend failure"]

BoxPool ==
  { Box(<<"p","i","z","z","a">>, <<0, 0, 316, 316>>, Frac(875, 1000)),
    Box(<<"p","i","z","z","a">>, <<10, 10, 20, 20>>, Frac(5, 10)),
    Box(<<"b","o","w","l">>, <<0, 0, 640, 480>>, Frac(9, 10)),
    Box(<<"f","o","r","k">>, <<300, 0, 340, 200>>, Frac(8, 10)),
    Box(<<"c","a","r","r","o","t">>, <<100, 100, 300, 201>>, Frac(314, 1000)),
    Box(<<"b","a","n","a","n","a">>, <<0, 0, 203, 150>>, Frac(66, 100)),
    Box(<<"p","e","r","s","o","n">>, <<0, 0, 100, 400>>, Frac(99, 100)),
    Box(<<"c","a","k","e">>, <<50, 50, 251, 350>>, Frac(45, 100)),
    Box(<<"a","r","r","o","z">>, <<0, 0, 400, 250>>, Frac(8, 10)),
    Box(<<"c","u","p">>, <<500, 20, 600, 140>>, Frac(72, 100)) }

\* the sequences over S of length at most n
SeqsUpTo(S, n) == UNION { [1..k -> S] : k \in 0..n }

BackendOutcomes ==
  {BackendFails} \cup { Detected(bs) : bs \in SeqsUpTo(BoxPool, MaxBoxes) }

FileStates == {"cv2", "pil", "corrupt", "missing"}
Shapes == { <<480, 640>>, <<100, 100>> }
Jpg == <<".","j","p","g">>

\* the images CalculatePlateCalories is called with
PlateImages ==
  { Image(stem, Jpg, file, <<480, 640>>, yolo) :
      stem \in { <<"a","r","r","o","z","_","f","e","i","j","a","o">>, <<"p","r","a","t","o">> },
      file \in FileStates, yolo \in BackendOutcomes }

\* the images ClassifyFoods is called with
ClassifyStems ==
  { <<"a","r","r","o","z","_","f","e","i","j","a","o">>, <<"A","r","r","o","z","_","F","e","i","j","a","o">>, <<"p","r","a","t","o">>, <<"f","r","a","n","g","o","_","c","o","m","_","b","a","t","a","t","a">>,
    <<"F","E","I","J","A~","O">>, <<"m","a","c","a","r","r","a~","o","_","q","u","e","i","j","o">>, <<"u","v","a","_","m","a","c,","a~">>, <<"b","a","n","a","n","a">>,
    <<"m","a","c,","a~">> }
ClassifyImages ==
  { Image(stem, Jpg, file, shape, BackendFails) :
      stem \in ClassifyStems, file \in FileStates, shape \in Shapes }

\* what a loaded classifier model predicts for an image
PredictionFails == [ok |-> FALSE, error |-> "prediction failure"]
SingleLabel(predicted_class, confidence) ==
  [ok |-> TRUE, value |-> [multi |-> FALSE, predicted_class |-> predicted_class,
                           confidence |-> confidence]]
MultiLabel(scores) == [ok |-> TRUE, value |-> [multi |-> TRUE, scores |-> scores]]

Vocab == << <<"a","r","r","o","z">>, <<"f","r","a","n","g","o">>,
            <<"x","y","z","f","o","o","d">> >>
Confidences == { Frac(2, 10), Frac(3, 10), Frac(9, 10) }

PredictionOutcomes ==
  {PredictionFails}
  \cup { SingleLabel(Vocab[k], c) : k \in 1..Len(Vocab), c \in Confidences }
  \cup { MultiLabel([k \in 1..Len(Vocab) |-> <<Vocab[k], cs[k]>>]) :
           cs \in [1..Len(Vocab) -> Confidences] }

\* the images ClassifyFoods is called with when a model is loaded
PredictedImages ==
  { Image(stem, Jpg, file, <<480, 640>>, BackendFails) @@ [predict |-> p] :
      stem \in { <<"a","r","r","o","z","_","f","e","i","j","a","o">>,
                 <<"p","r","a","t","o">> },
      file \in {"cv2", "pil", "corrupt"}, p \in PredictionOutcomes }

\* the detections EstimateFoodQuantity is called with
EstimateLabels ==
  { <<"a","r","r","o","z">>, <<"a","l","f","a","c","e">>, <<"f","r","a","n","g","o">>, <<"b","o","w","l">>, <<"p","i","z","z","a">>, <<"F","e","i","j","a~","o">>,
    <<"s","a","l","a","d","a"," ","d","e"," ","b","a","t","a","t","a">>, <<"a","r","r","o","z"," ","c","o","m"," ","f","r","a","n","g","o">> }
EstimateAreas == {0, 100, 20000, 99856, 100000, 307200}
EstimateDetections ==
  { [class_name |-> l, confidence |-> Frac(7, 10), bbox |-> <<0, 0, 640, 480>>,
     area |-> a, calories_per_100g |-> get_calories_per_100g(l)] :
      l \in EstimateLabels, a \in EstimateAreas }

\* the detections CalculateFoodArea is called with, each with its origin: a
\* match of the classifier on the filename, or a box of the backend
AreaInputs ==
  UNION { { [origin |-> "filename", detection |-> FilenameMatches(image)[i]] :
              i \in 1..Len(FilenameMatches(image)) } : image \in ClassifyImages }
  \cup
  UNION { { [origin |-> "backend", detection |-> ProcessBox(box)[i]] :
              i \in 1..Len(ProcessBox(box)) } : box \in BoxPool }

\* the labels EstimateFoodHeight is called with
HeightLabels ==
  { <<"S","a","l","a","d","a"," ","d","e"," ","B","a","t","a","t","a">>,
    <<"a","r","r","o","z"," ","c","o","m"," ","f","r","a","n","g","o">>,
    <<"A","R","R","O","Z"," ","C","O","M"," ","F","R","A","N","G","O">>,
    <<"F","e","i","j","a~","o">>,
    <<"F","E","I","J","A~","O">>,
    <<"f","r","a","n","g","o">>,
    <<"b","i","f","e">>,
    <<"B","e","e","f">>,
    <<"p","i","z","z","a">>,
    <<"a","l","f","a","c","e">>,
    <<"c","a","r","n","e"," ","c","o","m"," ","s","a","l","a","d","a">>,
    <<"r","i","c","e">>,
    <<"b","a","t","a","t","a"," ","f","r","i","t","a">>,
    <<>>,
    <<"f","e","i","j","a","o"," ","e"," ","c","a","r","n","e">>,
    <<"b","o","w","l">> }

\* the labels get_calories_per_100g is called with: every spelling in upper
\* and lower case of a few names, known and unknown
LowerToUpper == [c \in {UpperToLower[u] : u \in DOMAIN UpperToLower} |->
                   CHOOSE u \in DOMAIN UpperToLower : UpperToLower[u] = c]
RECURSIVE CaseVariants(_)
CaseVariants(s) ==
  IF s = << >> THEN { << >> }
  ELSE LET c == Head(s)
           cs == IF c \in DOMAIN LowerToUpper THEN {c, LowerToUpper[c]} ELSE {c}
       IN  { <<x>> \o v : x \in cs, v \in CaseVariants(Tail(s)) }
LookupNames ==
  { <<"a","r","r","o","z">>, <<"f","e","i","j","a~","o">>, <<"s","a","l">>, <<"p","i","z","z","a">>, <<"x","y","z","f","o","o","d">>, <<"h","o","t"," ","d","o","g">>, <<"b","o","w","l">>, << >> }
LookupLabels == UNION { CaseVariants(s) : s \in LookupNames }

\* directory entries
Entry(image, is_file, report_writable) ==
  image @@ [is_file |-> is_file, report_writable |-> report_writable]

EntryPool ==
  { Entry(Image(<<"a","r","r","o","z","_","f","e","i","j","a","o">>, <<".","j","p","g">>, "cv2", <<480, 640>>, Detected(<< >>)),
          TRUE, TRUE),
    Entry(Image(<<"p","r","a","t","o">>, <<".","P","N","G">>, "cv2", <<480, 640>>,
                Detected(<< Box(<<"p","i","z","z","a">>, <<0, 0, 316, 316>>, Frac(875, 1000)),
                            Box(<<"b","o","w","l">>, <<0, 0, 640, 480>>, Frac(9, 10)),
                            Box(<<"f","o","r","k">>, <<300, 0, 340, 200>>, Frac(8, 10)) >>)),
          TRUE, TRUE),
    Entry(Image(<<"q","u","e","b","r","a","d","o">>, <<".","j","p","g">>, "corrupt", <<480, 640>>, Detected(<< >>)),
          TRUE, TRUE),
    Entry(Image(<<"s","u","m","i","u">>, <<".","j","p","e","g">>, "missing", <<480, 640>>, BackendFails),
          TRUE, TRUE),
    Entry(Image(<<"s","o","b","r","e","m","e","s","a">>, <<".","w","e","b","p">>, "pil", <<100, 100>>,
                Detected(<< Box(<<"c","a","k","e">>, <<10, 10, 60, 70>>, Frac(45, 100)) >>)),
          TRUE, FALSE),
    Entry(Image(<<"b","o","r","r","a","d","o">>, <<".","b","m","p">>, "cv2", <<480, 640>>, BackendFails),
          TRUE, TRUE),
    Entry(Image(<<"n","o","t","a","s">>, <<".","t","x","t">>, "corrupt", <<480, 640>>, BackendFails),
          TRUE, TRUE),
    Entry(Image(<<"f","o","t","o","s">>, <<".","j","p","g">>, "missing", <<480, 640>>, BackendFails),
          FALSE, TRUE) }

\* the listings of a directory: distinct entries, in iteration order
Listings ==
  { es \in SeqsUpTo(EntryPool, MaxEntries) :
      \A i, j \in 1..Len(es) : i # j => es[i] # es[j] }

Directories ==
  { [exists |-> FALSE, listable |-> FALSE, entries |-> << >>],
    [exists |-> TRUE, listable |-> FALSE, entries |-> << >>] }
  \cup { [exists |-> TRUE, listable |-> TRUE, entries |-> es] : es \in Listings }

(***************************************************************************)
(* State                                                                   *)
(***************************************************************************)
VARIABLES
  directory,    \* the directory main is given
  pc,           \* where main is
  image_files,  \* ProcessDirectory: image_files
  results,      \* ProcessDirectory: results
  reports,      \* the report files written so far
  raised,       \* the exception that reached main, or "none"
  summary,      \* what PrintResume printed, or "none"
  call          \* the last call of a component made on its own

vars == <<directory, pc, image_files, results, reports, raised, summary, call>>

mainVars == <<directory, pc, image_files, results, reports, raised, summary>>

NoCall == [op |-> "none"]

(***************************************************************************)
(* main(): one run over a directory                                        *)
(***************************************************************************)
Init ==
  /\ directory \in Directories
  /\ pc = "main"
  /\ image_files = << >>
  /\ results = << >>
  /\ reports = << >>
  /\ raised = "none"
  /\ summary = "none"
  /\ call = NoCall

\* main, lines 18-20: the path is validated before anything is built
Main ==
  /\ pc = "main"
  /\ pc' = IF ValidatePath(directory) THEN "ProcessDirectory" ELSE "invalid"
  /\ UNCHANGED <<directory, image_files, results, reports, raised, summary, call>>

\* ProcessDirectory, lines 25-29, called inside main's try
ProcessDirectoryEnter ==
  /\ pc = "ProcessDirectory"
  /\ LET verified == VerifyDirectoryPath(directory)
         found == FindImageFiles(directory)
     IN  IF ~verified.ok
         THEN /\ pc' = "failed"
              /\ raised' = [in |-> "VerifyDirectoryPath", error |-> verified.error]
              /\ UNCHANGED image_files
         ELSE IF ~found.ok
         THEN /\ pc' = "failed"
              /\ raised' = [in |-> "FindImageFiles", error |-> found.error]
              /\ UNCHANGED image_files
         ELSE /\ pc' = "loop"
              /\ image_files' = found.value
              /\ UNCHANGED raised
  /\ UNCHANGED <<directory, results, reports, summary, call>>

\* ProcessDirectory, lines 30-33: one iteration of the loop
ProcessDirectoryStep ==
  /\ pc = "loop"
  /\ Len(results) < Len(image_files)
  /\ LET image_file == image_files[Len(results) + 1]
         result == ProcessImageFile(image_file)
         saved == SaveResultToFile(result, image_file)
     IN  /\ results' = Append(results, result)
         /\ IF saved.ok
            THEN /\ reports' = Append(reports, saved.value)
                 /\ UNCHANGED <<pc, raised>>
            ELSE /\ pc' = "failed"
                 /\ raised' = [in |-> "SaveResultToFile", error |-> saved.error]
                 /\ UNCHANGED reports
  /\ UNCHANGED <<directory, image_files, summary, call>>

\* ProcessDirectory, line 35, then main, line 34: PrintResume(results, ...)
ProcessDirectoryReturn ==
  /\ pc = "loop"
  /\ Len(results) = Len(image_files)
  /\ pc' = "done"
  /\ summary' = PrintResume(results)
  /\ UNCHANGED <<directory, image_files, results, reports, raised, call>>

Next ==
  \/ Main
  \/ ProcessDirectoryEnter
  \/ ProcessDirectoryStep
  \/ ProcessDirectoryReturn

Spec == Init /\ [][Next]_vars

(***************************************************************************)
(* The components called on their own, one call in a run                   *)
(***************************************************************************)
InitCalls ==
  /\ directory = [exists |-> FALSE, listable |-> FALSE, entries |-> << >>]
  /\ pc = "idle"
  /\ image_files = << >>
  /\ results = << >>
  /\ reports = << >>
  /\ raised = "none"
  /\ summary = "none"
  /\ call = NoCall

CallLookup ==
  /\ call = NoCall
  /\ \E food_item \in LookupLabels :
       /\ call' = [op |-> "get_calories_per_100g", food_item |-> food_item,
                   returned |-> get_calories_per_100g(food_item)]
       /\ UNCHANGED mainVars

CallEstimate ==
  /\ call = NoCall
  /\ \E detection \in EstimateDetections, image_shape \in Shapes :
       /\ call' = [op |-> "EstimateFoodQuantity", detection |-> detection,
                   image_shape |-> image_shape,
                   returned |-> EstimateFoodQuantity(detection, image_shape)]
       /\ UNCHANGED mainVars

CallPlate ==
  /\ call = NoCall
  /\ \E image \in PlateImages :
       /\ call' = [op |-> "CalculatePlateCalories", image |-> image,
                   returned |-> CalculatePlateCalories(image)]
       /\ UNCHANGED mainVars

CallClassify ==
  /\ call = NoCall
  /\ \E image \in ClassifyImages :
       /\ call' = [op |-> "ClassifyFoods", image |-> image,
                   returned |-> ClassifyFoods(image)]
       /\ UNCHANGED mainVars

CallClassifyLoaded ==
  /\ call = NoCall
  /\ \E image \in PredictedImages :
       /\ call' = [op |-> "ClassifyFoods, model loaded", image |-> image,
                   returned |-> ClassifyFoodsLoaded(image)]
       /\ UNCHANGED mainVars

CallFoodArea ==
  /\ call = NoCall
  /\ \E input \in AreaInputs, image_shape \in Shapes :
       /\ call' = [op |-> "CalculateFoodArea", origin |-> input.origin,
                   detection |-> input.detection, image_shape |-> image_shape,
                   returned |-> CalculateFoodArea(input.detection, image_shape)]
       /\ UNCHANGED mainVars

CallHeight ==
  /\ call = NoCall
  /\ \E food_name \in HeightLabels :
       /\ call' = [op |-> "EstimateFoodHeight", food_name |-> food_name,
                   returned |-> EstimateFoodHeight(food_name)]
       /\ UNCHANGED mainVars

NextCalls ==
  \/ CallLookup
  \/ CallEstimate
  \/ CallPlate
  \/ CallClassify
  \/ CallClassifyLoaded
  \/ CallFoodArea
  \/ CallHeight

SpecCalls == InitCalls /\ [][NextCalls]_vars

(***************************************************************************)
(* Properties                                                              *)
(***************************************************************************)
IsCall(op) == call.op = op

\* the detections a CalculatePlateCalories call worked on
CallDetections == DetectFoods(call.image).value

PlateReturned == IsCall("CalculatePlateCalories") /\ call.returned.ok

\* C1: for every detection (any label, any area >= 0) and every image shape
\* with positive height and width, EstimateFoodQuantity returns a mass w with
\* 30.0 <= w <= 400.0; a raw weight below 30 is returned as 30.0 and a raw
\* weight above 400 as 400.0.  The same holds of every weight_g that
\* CalculatePlateCalories reports.
C1_WeightWithinLimits ==
  /\ IsCall("EstimateFoodQuantity") =>
       LET raw == RawWeight(call.detection, call.image_shape)
       IN  /\ 300 <= call.returned /\ call.returned <= 4000
           /\ (raw.n < 30 * raw.d => call.returned = 300)
           /\ (raw.n > 400 * raw.d => call.returned = 4000)
  /\ PlateReturned =>
       \A i \in 1..Len(call.returned.value.food_details) :
         /\ 300 <= call.returned.value.food_details[i].weight_g
         /\ call.returned.value.food_details[i].weight_g <= 4000

\* a call whose raw weight is below the floor and comes back as 30.0
C1_Witness ==
  /\ IsCall("EstimateFoodQuantity")
  /\ call.detection.area > 0
  /\ LET raw == RawWeight(call.detection, call.image_shape)
     IN  raw.n < 30 * raw.d
  /\ call.returned = 300

\* C2: for every detection processed by CalculatePlateCalories, with
\* calories_per_100g = c and estimated mass w returned by
\* EstimateFoodQuantity, the FoodDetail has calories = round(c * w / 100, 1)
\* and weight_g = w; the product is taken before the calories are rounded.
\* (w in tenths of a gram: c * w / 100 kcal is c * w10 / 1000.)
C2_DetailCalories ==
  PlateReturned =>
    /\ Len(call.returned.value.food_details) = Len(CallDetections)
    /\ \A i \in 1..Len(CallDetections) :
         LET c == CallDetections[i].calories_per_100g
             w == EstimateFoodQuantity(CallDetections[i], call.image.shape)
             detail == call.returned.value.food_details[i]
         IN  /\ detail.weight_g = w
             /\ detail.calories = RoundDiv(c * w * 10, 1000)

\* a plate with a caloric food whose weight is strictly inside the limits and
\* not a whole number of grams
C2_Witness ==
  /\ PlateReturned
  /\ \E i \in 1..Len(call.returned.value.food_details) :
       LET detail == call.returned.value.food_details[i]
       IN  /\ detail.calories > 0
           /\ 300 < detail.weight_g /\ detail.weight_g < 4000
           /\ detail.weight_g % 10 # 0

\* the unrounded calories of a list of detections, in thousandths of a kcal
RECURSIVE MilliCalories(_, _)
MilliCalories(detections, image_shape) ==
  IF detections = << >> THEN 0
  ELSE Head(detections).calories_per_100g
         * EstimateFoodQuantity(Head(detections), image_shape)
       + MilliCalories(Tail(detections), image_shape)

\* the sum of the calories of a list of FoodDetails, in tenths of a kcal
RECURSIVE SumDetailCalories(_)
SumDetailCalories(details) ==
  IF details = << >> THEN 0
  ELSE Head(details).calories + SumDetailCalories(Tail(details))

\* C3: total_calories of a successful PlateResult is the sum over its
\* detections of the unrounded calories_per_100g * grams / 100, rounded once
\* to 1 decimal after the summation.  (That it is not the sum of the rounded
\* FoodDetail.calories is what C3_Witness shows: the two differ there.)
C3_TotalRoundedOnce ==
  PlateReturned =>
    call.returned.value.total_calories
      = RoundDiv(MilliCalories(CallDetections, call.image.shape), 100)

\* a plate whose total differs from the sum of its rounded FoodDetail.calories
C3_Witness ==
  /\ PlateReturned
  /\ call.returned.value.total_calories
       # SumDetailCalories(call.returned.value.food_details)

\* whether processing an image raises, and with what message, read off the
\* image: the backend fails, or the file is missing, or nothing decodes it
ProcessingFails(image) ==
  ~image.yolo.ok \/ image.file \in {"missing", "corrupt"}
FailureMessage(image) ==
  IF ~image.yolo.ok THEN image.yolo.error
  ELSE IF image.file = "missing" THEN "Image Not Found"
  ELSE "Unsupported Image Format or Corrupted File"

\* the entries of the directory that are image files, in iteration order
ImagesFound ==
  SelectSeq(directory.entries,
    LAMBDA f : f.is_file /\ Lower(f.path.suffix) \in supported_formats)

\* C4: ProcessDirectory returns exactly one result per image file found, in
\* iteration order; the result of an image whose processing raises is the
\* error variant {image_path, error, total_calories = 0, food_count = 0} with
\* the image's path and the exception's message, the result of any other
\* image has no error field, and the images after a failing one are processed.
C4_OneResultPerImage ==
  /\ \A i \in 1..Len(results) :
       /\ i <= Len(ImagesFound)
       /\ results[i].image_path = ImagesFound[i].path
       /\ IF ProcessingFails(ImagesFound[i])
          THEN results[i] = [image_path |-> ImagesFound[i].path,
                             error |-> FailureMessage(ImagesFound[i]),
                             total_calories |-> 0,
                             food_count |-> 0]
          ELSE "error" \notin DOMAIN results[i]
  /\ pc = "done" => Len(results) = Len(ImagesFound)

\* three images, the second one corrupt: three results, one error field
C4_Witness ==
  /\ pc = "done"
  /\ Len(results) = 3
  /\ ImagesFound[2].file = "corrupt"
  /\ "error" \notin DOMAIN results[1]
  /\ "error" \in DOMAIN results[2]
  /\ "error" \notin DOMAIN results[3]

\* C5: no failure belonging to a single image aborts the batch; the only
\* exception that leaves ProcessDirectory comes from reading the directory.
C5_OnlyDirectoryAborts ==
  pc = "failed" => raised.in \in {"VerifyDirectoryPath", "FindImageFiles"}

\* the indices of the results with, and without, an error field
ErrorIndices == {i \in 1..Len(results) : "error" \in DOMAIN results[i]}
SuccessIndices == {i \in 1..Len(results) : "error" \notin DOMAIN results[i]}

RECURSIVE SumOver(_)
SumOver(indices) ==
  IF indices = {} THEN 0
  ELSE LET i == CHOOSE j \in indices : TRUE
       IN  results[i].total_calories + SumOver(indices \ {i})

\* C6: the batch summary reports processed = number of results, successes =
\* number of results without an error field, errors = number with one
\* (successes + errors = processed), and the aggregate calories, printed when
\* there is a success, is the sum of total_calories over the successes.
C6_BatchSummary ==
  pc = "done" =>
    /\ summary.processed = Len(results)
    /\ summary.successful = Cardinality(SuccessIndices)
    /\ summary.errors = Cardinality(ErrorIndices)
    /\ summary.successful + summary.errors = summary.processed
    /\ summary.total_calories
         = IF SuccessIndices # {} THEN << SumOver(SuccessIndices) >> ELSE << >>

\* a batch with an error, and two successes of which one has calories
C6_Witness ==
  /\ pc = "done"
  /\ summary.errors = 1
  /\ summary.successful = 2
  /\ summary.total_calories # << 0 >>

\* C7: get_calories_per_100g is case-insensitive (a label and any upper- or
\* lower-case spelling of it return the same value); for a label that in no
\* spelling is a key of the table it returns 0; it never returns a negative
\* value.
C7_LookupIgnoresCase ==
  IsCall("get_calories_per_100g") =>
    /\ call.returned >= 0
    /\ \A spelling \in CaseVariants(Lower(call.food_item)) :
         get_calories_per_100g(spelling) = call.returned
    /\ (\A spelling \in CaseVariants(Lower(call.food_item)) :
          spelling \notin DOMAIN CALORIE_DATABASE) => call.returned = 0
    /\ \A key \in DOMAIN CALORIE_DATABASE :
         key \in CaseVariants(Lower(call.food_item))
           => call.returned = CALORIE_DATABASE[key]

\* a label with capitals that is found
C7_Witness ==
  /\ IsCall("get_calories_per_100g")
  /\ call.food_item # Lower(call.food_item)
  /\ call.returned > 0

\* C8: in the pipeline of CalculatePlateCalories the filename-keyword
\* fallback runs when the backend output yields no retained detection: for an
\* image whose filename stem contains a known food keyword and for which the
\* backend retains nothing, the detections handed to the aggregator are the
\* filename-derived ones, not the empty list.
C8_FilenameFallbackRuns ==
  ( /\ PlateReturned
    /\ CallDetections = << >>
    /\ FilenameMatches(call.image) # << >> )
  => /\ call.returned.value.food_count = Len(FilenameMatches(call.image))
     /\ \A i \in 1..Len(FilenameMatches(call.image)) :
          call.returned.value.food_details[i].food
            = FilenameMatches(call.image)[i].class_name

\* C9: filename matching on the stem "arroz_feijao" yields exactly two
\* detections, "arroz" then "feijao", each with confidence 0.7 and the
\* calories_per_100g of its label (130 and 347), and nothing else.
C9_ArrozFeijao ==
  ( IsCall("ClassifyFoods")
    /\ call.image.path.stem = <<"a","r","r","o","z","_","f","e","i","j","a","o">> )
  => /\ Len(call.returned) = 2
     /\ call.returned[1].class_name = <<"a","r","r","o","z">>
     /\ call.returned[2].class_name = <<"f","e","i","j","a","o">>
     /\ call.returned[1].calories_per_100g = 130
     /\ call.returned[2].calories_per_100g = 347
     /\ \A i \in 1..2 :
          /\ call.returned[i].confidence = Frac(7, 10)
          /\ call.returned[i].calories_per_100g
               = CALORIE_DATABASE[call.returned[i].class_name]

C9_Witness ==
  /\ IsCall("ClassifyFoods")
  /\ call.image.path.stem = <<"a","r","r","o","z","_","f","e","i","j","a","o">>
  /\ Len(call.returned) = 2

\* the detections of a ClassifyFoods call that come from the filename
FromFilename(d) == d.confidence = Frac(7, 10)

ArrozScenario ==
  /\ PlateReturned
  /\ call.image.shape = <<480, 640>>
  /\ Len(CallDetections) = 1
  /\ CallDetections[1].class_name = <<"a","r","r","o","z">>
  /\ CallDetections[1].area = 100000
  /\ CallDetections[1].calories_per_100g = 130

\* C11, as stated: in the scenario the returned mass is 383.5 g and the
\* food's calories and the plate total are 498.6 kcal.
C11_Mass3835 ==
  ArrozScenario =>
    /\ call.returned.value.food_details[1].weight_g = 3835
    /\ call.returned.value.food_details[1].calories = 4986
    /\ call.returned.value.total_calories = 4986

\* C11, amended: in the scenario the estimator uses height 3.0 cm and density
\* 0.8, the raw weight is 100000 / 307200 * 491 * 3.0 * 0.8 = 383.59..., the
\* returned mass is 383.6 g (inside [30, 400]), and the food's calories and
\* the plate total are 130 * 383.6 / 100 = 498.68, reported as 498.7 kcal.
C11_Mass3836 ==
  ArrozScenario =>
    /\ EstimateFoodHeight(CallDetections[1].class_name) = Frac(3, 1)
    /\ GetFoodDensity(CallDetections[1].class_name) = Frac(8, 10)
    /\ call.returned.value.food_details[1].weight_g = 3836
    /\ call.returned.value.food_details[1].calories = 4987
    /\ call.returned.value.total_calories = 4987
    /\ call.returned.value.food_count = 1

C11_Witness ==
  /\ ArrozScenario
  /\ call.returned.value.food_details[1].weight_g = 3836

\* C12: a failure of the recognition backend for an image is caught and
\* treated as zero detections: the image's result is not an error variant.
C12_BackendFailureDemoted ==
  \A i \in 1..Len(results) :
    (~ImagesFound[i].yolo.ok /\ ImagesFound[i].file \in {"cv2", "pil"})
      => "error" \notin DOMAIN results[i]

\* the boxes the backend returned for the image of the call
CallBoxes == call.image.yolo.value[1].boxes

\* the food name a backend label stands for
MappedName(label) ==
  IF label \in DOMAIN coco_to_food THEN coco_to_food[label] ELSE label

\* whether a backend box is to be retained: it has calories or is contextual
Retainable(box) ==
  \/ get_calories_per_100g(MappedName(box.cls)) > 0
  \/ box.cls \in { <<"b","o","w","l">>, <<"c","u","p">> }

\* C13: the normalizer retains a backend region if and only if its looked-up
\* calories_per_100g > 0 or its label is bowl or cup: the detections are the
\* retainable boxes, in order, nothing else; so every retained detection
\* with calories_per_100g = 0 is a bowl or a cup, and a box with any other
\* unknown label is dropped and the call still returns.
C13_RetainedIff ==
  (IsCall("CalculatePlateCalories") /\ call.image.yolo.ok
     /\ call.image.file \in {"cv2", "pil"}) =>
    LET kept == SelectSeq(CallBoxes, Retainable)
    IN  /\ call.returned.ok
        /\ Len(CallDetections) = Len(kept)
        /\ call.returned.value.food_count = Len(kept)
        /\ \A i \in 1..Len(kept) :
             /\ CallDetections[i].coco_class = kept[i].cls
             /\ CallDetections[i].bbox = kept[i].xyxy
             /\ call.returned.value.food_details[i].food = MappedName(kept[i].cls)
             /\ CallDetections[i].calories_per_100g = 0
                  => CallDetections[i].coco_class
                       \in { <<"b","o","w","l">>, <<"c","u","p">> }

\* a plate where the backend saw a fork and a cup: only the cup is retained
C13_Witness ==
  /\ PlateReturned
  /\ Len(CallBoxes) = 2
  /\ CallBoxes[1].cls = <<"f","o","r","k">>
  /\ CallBoxes[2].cls = <<"c","u","p">>
  /\ call.returned.value.food_count = 1
  /\ call.returned.value.food_details[1].food = <<"c","u","p">>
  /\ CallDetections[1].calories_per_100g = 0

\* C14: in every successful PlateResult, food_count is the number of
\* retained detections and the length of food_details, and the i-th
\* FoodDetail is built from the i-th detection.
C14_DetailsInDetectionOrder ==
  PlateReturned =>
    LET result == call.returned.value
    IN  /\ result.food_count = Len(CallDetections)
        /\ result.food_count = Len(result.food_details)
        /\ \A i \in 1..Len(CallDetections) :
             /\ result.food_details[i].food = CallDetections[i].class_name
             /\ result.food_details[i].confidence
                  = Round2(CallDetections[i].confidence)
             /\ result.food_details[i].weight_g
                  = EstimateFoodQuantity(CallDetections[i], call.image.shape)

\* a plate with two different foods
C14_Witness ==
  /\ PlateReturned
  /\ call.returned.value.food_count = 2
  /\ call.returned.value.food_details[1].food
       # call.returned.value.food_details[2].food
  /\ call.returned.value.food_details[1].weight_g
       # call.returned.value.food_details[2].weight_g

\* C15: for a detection that originated from the filename, the estimator
\* ignores the detection's area and the image dimensions and uses
\* food_area_cm2 = 0.4 * 491; for every other detection it uses
\* food_area_cm2 = (area / (image_height * image_width)) * 491.
C15_FilenameAreaOverride ==
  IsCall("CalculateFoodArea") =>
    IF call.origin = "filename"
    THEN call.returned = Frac(4 * 491, 10)
    ELSE call.returned
           = Frac(call.detection.area * 491,
                  call.image_shape[1] * call.image_shape[2])

\* whether a lower-cased label contains one of the words
Mentions(name, words) == \E word \in words : Contains(word, name)

\* C16: the height is decided by substring match on the lower-cased label,
\* the first matching category winning, in the order salad (2.0 cm),
\* grain/legume (3.0 cm), potato/meat/poultry (4.0 cm), default (3.0 cm): a
\* label with "salada" and "batata" gets 2.0, one with "arroz" and "frango"
\* (and no salad word) gets 3.0, and the result is one of 2.0, 3.0, 4.0.
C16_FirstCategoryWins ==
  IsCall("EstimateFoodHeight") =>
    LET name == Lower(call.food_name)
        salad == Mentions(name, { <<"s","a","l","a","d","a">>,
                                  <<"a","l","f","a","c","e">>,
                                  <<"l","e","t","t","u","c","e">> })
        grain == Mentions(name, { <<"a","r","r","o","z">>, <<"r","i","c","e">>,
                                  <<"f","e","i","j","a","o">>,
                                  <<"f","e","i","j","a~","o">>,
                                  <<"b","e","a","n","s">> })
        protein == Mentions(name, { <<"b","a","t","a","t","a">>,
                                    <<"p","o","t","a","t","o">>,
                                    <<"c","a","r","n","e">>, <<"b","e","e","f">>,
                                    <<"f","r","a","n","g","o">>,
                                    <<"c","h","i","c","k","e","n">> })
    IN  /\ call.returned \in { Frac(2, 1), Frac(3, 1), Frac(4, 1) }
        /\ salad => call.returned = Frac(2, 1)
        /\ (~salad /\ grain) => call.returned = Frac(3, 1)
        /\ (~salad /\ ~grain /\ protein) => call.returned = Frac(4, 1)
        /\ (~salad /\ ~grain /\ ~protein) => call.returned = Frac(3, 1)
        /\ (Contains(<<"s","a","l","a","d","a">>, name)
              /\ Contains(<<"b","a","t","a","t","a">>, name))
             => call.returned = Frac(2, 1)
        /\ (Contains(<<"a","r","r","o","z">>, name)
              /\ Contains(<<"f","r","a","n","g","o">>, name) /\ ~salad)
             => call.returned = Frac(3, 1)

\* a label in capitals with a grain word and a protein word, given the height
\* of the grains
C16_Witness ==
  /\ IsCall("EstimateFoodHeight")
  /\ call.food_name # Lower(call.food_name)
  /\ Contains(<<"a","r","r","o","z">>, Lower(call.food_name))
  /\ Contains(<<"f","r","a","n","g","o">>, Lower(call.food_name))
  /\ call.returned = Frac(3, 1)

\* a call of the classifier that takes the rule-based path: no model is
\* loaded, or the image cannot be opened, or the model's prediction raised
RuleBasedCall ==
  \/ IsCall("ClassifyFoods")
  \/ /\ IsCall("ClassifyFoods, model loaded")
     /\ (call.image.file = "corrupt" \/ ~call.image.predict.ok)

\* the generic staple foods, as a detection list for an image
StapleFoods(image) ==
  [i \in 1..3 |->
     [class_name |-> << <<"a","r","r","o","z">>, <<"f","e","i","j","a~","o">>,
                        <<"f","r","a","n","g","o">> >>[i],
      confidence |-> Frac(5, 10),
      calories_per_100g |-> <<130, 347, 165>>[i],
      bbox |-> EstimateBoundingBox(image),
      area |-> EstimateArea(image)]]

\* C17: on the rule-based path, when filename matching produces no detection
\* the result is the constant set of staple foods (arroz, feijão, frango),
\* each with confidence 0.5 and calories_per_100g > 0; the defaults are
\* returned only in that case, so the result is never empty and never mixes
\* 0.7-confidence filename matches with 0.5-confidence defaults.
C17_DefaultsOnlyWithoutMatch ==
  RuleBasedCall =>
    /\ call.returned # << >>
    /\ FilenameMatches(call.image) = << >>
         => call.returned = StapleFoods(call.image)
    /\ FilenameMatches(call.image) # << >>
         => \A i \in 1..Len(call.returned) :
              call.returned[i].confidence = Frac(7, 10)
    /\ \/ \A i \in 1..Len(call.returned) :
            call.returned[i].confidence = Frac(7, 10)
       \/ \A i \in 1..Len(call.returned) :
            /\ call.returned[i].confidence = Frac(5, 10)
            /\ call.returned[i].calories_per_100g > 0

\* a filename whose only keyword has no calories: the staples are returned
C17_Witness ==
  /\ IsCall("ClassifyFoods")
  /\ call.image.path.stem = <<"m","a","c,","a~">>
  /\ Len(call.returned) = 3
  /\ \A i \in 1..3 : call.returned[i].confidence = Frac(5, 10)

\* C18: when the detection list for a loadable image is empty,
\* CalculatePlateCalories does not raise and returns a non-error PlateResult
\* with food_details = [], total_calories = 0 and food_count = 0.
C18_EmptyPlate ==
  ( IsCall("CalculatePlateCalories")
    /\ call.image.file \in {"cv2", "pil"}
    /\ call.image.yolo.ok
    /\ SelectSeq(CallBoxes, Retainable) = << >> )
  => /\ call.returned.ok
     /\ "error" \notin DOMAIN call.returned.value
     /\ call.returned.value.food_details = << >>
     /\ call.returned.value.total_calories = 0
     /\ call.returned.value.food_count = 0

\* a plate where the backend saw only a fork and a person: both are dropped
C18_Witness ==
  /\ PlateReturned
  /\ Len(CallBoxes) = 2
  /\ call.returned.value.food_details = << >>
  /\ call.returned.value.food_count = 0

\* the detections with calories, in order
RECURSIVE CaloricDetections(_)
CaloricDetections(detections) ==
  IF detections = << >> THEN << >>
  ELSE (IF Head(detections).calories_per_100g > 0
        THEN << Head(detections) >> ELSE << >>)
         \o CaloricDetections(Tail(detections))

\* C19: a retained contextual detection (bowl or cup, calories_per_100g = 0)
\* contributes 0 to total_calories, yet it is counted in food_count and
\* emitted as a FoodDetail with calories 0 and a weight_g in [30, 400]; so
\* total_calories is the total over the detections with calories_per_100g > 0
\* and food_count is at least the number of caloric foods.
C19_ContextualCountsButWeighsNothing ==
  PlateReturned =>
    LET result == call.returned.value
        caloric == CaloricDetections(CallDetections)
    IN  /\ \A i \in 1..Len(CallDetections) :
             CallDetections[i].calories_per_100g = 0
               => /\ CallDetections[i].coco_class
                       \in { <<"b","o","w","l">>, <<"c","u","p">> }
                  /\ result.food_details[i].calories = 0
                  /\ result.food_details[i].weight_g >= 300
                  /\ result.food_details[i].weight_g <= 4000
        /\ result.total_calories
             = RoundDiv(MilliCalories(caloric, call.image.shape), 100)
        /\ result.food_count = Len(CallDetections)
        /\ result.food_count >= Len(caloric)

\* a pizza in a bowl: two foods counted, the calories of the pizza alone
C19_Witness ==
  /\ PlateReturned
  /\ call.returned.value.food_count = 2
  /\ Len(CaloricDetections(CallDetections)) = 1
  /\ call.returned.value.total_calories > 0
  /\ \E i \in 1..2 :
       /\ call.returned.value.food_details[i].food = <<"b","o","w","l">>
       /\ call.returned.value.food_details[i].calories = 0
       /\ call.returned.value.food_details[i].weight_g = 4000

====
